---- MODULE Spec2Model ----
(***************************************************************************)
(* thanos-receive-controller (src/main.go): a state-machine model of the   *)
(* hashring reconciliation engine.                                         *)
(*                                                                         *)
(* Strings of the program (member addresses, hashring names, tenants, file *)
(* paths) are sequences of one-character strings, so that splitting and    *)
(* the byte-wise order of sort.Strings are computed and not assumed.       *)
(***************************************************************************)
EXTENDS Naturals, Sequences, FiniteSets, TLC

(***************************************************************************)
(* Bounds of the model.                                                    *)
(***************************************************************************)
\* ticks the ticker delivers in scheduled mode (runs of the scheduler loop)
MaxTicks == 2
\* tokens in a file name a directory may hold
MaxPathLen == 4

(***************************************************************************)
(* Strings and their order.                                                *)
(***************************************************************************)
\* the characters used, in ascending byte (ASCII) order
CharOrder == <<"0", "1", "9", ":", "a", "b", "c", "h", "t">>

Code(c) == CHOOSE i \in 1..Len(CharOrder) : CharOrder[i] = c

\* Go's string comparison a < b: byte-wise lexicographic
RECURSIVE StrLess(_, _)
StrLess(a, b) ==
    IF b = <<>> THEN FALSE
    ELSE IF a = <<>> THEN TRUE
    ELSE IF Head(a) # Head(b) THEN Code(Head(a)) < Code(Head(b))
    ELSE StrLess(Tail(a), Tail(b))

\* insert x into the sorted sequence s, before the first element greater than x
RECURSIVE Insert(_, _)
Insert(x, s) ==
    IF s = <<>> THEN <<x>>
    ELSE IF StrLess(x, Head(s)) THEN <<x>> \o s
    ELSE <<Head(s)>> \o Insert(x, Tail(s))

RECURSIVE InsertionSort(_)
InsertionSort(s) ==
    IF s = <<>> THEN <<>> ELSE Insert(Head(s), InsertionSort(Tail(s)))

\* a forgotten sort: the list stays in arrival order
SortStringsUnsorted(s) == s

\* sort.Strings(endpoints): ascending byte-wise order
SortStrings(s) == InsertionSort(s)

\* strings.Split(s, sep) for a one-character separator
RECURSIVE SplitAcc(_, _, _)
SplitAcc(s, sep, piece) ==
    IF s = <<>> THEN <<piece>>
    ELSE IF Head(s) = sep THEN <<piece>> \o SplitAcc(Tail(s), sep, <<>>)
    ELSE SplitAcc(Tail(s), sep, Append(piece, Head(s)))

Split(s, sep) == SplitAcc(s, sep, <<>>)

(***************************************************************************)
(* Slices: Go distinguishes a nil slice from an empty one, and             *)
(* encoding/json writes the first as null and the second as [].            *)
(***************************************************************************)
NilSlice == [isNil |-> TRUE, elems |-> <<>>]

MkSlice(s) == [isNil |-> FALSE, elems |-> s]

\* append(slice, x)
AppendSlice(sl, x) == MkSlice(Append(sl.elems, x))

(***************************************************************************)
(* HashringConfig and its JSON encoding.  A file's bytes are modelled as   *)
(* the JSON document they spell: a sequence of objects, each the sequence  *)
(* of its fields in the order written.                                     *)
(***************************************************************************)
HashringConfig(h, t, e) == [Hashring |-> h, Tenants |-> t, Endpoints |-> e]

Field(k, ty, v) == [key |-> k, type |-> ty, val |-> v]

\* bytes that are no JSON at all
Garbage == [kind |-> "garbage", objs |-> <<>>]

\* no bytes at all
NoBytes == [kind |-> "none", objs |-> <<>>]

JsonDoc(objs) == [kind |-> "json", objs |-> objs]

\* an encoder that writes the member list alone
MarshalOneEndpointsOnly(hc) ==
    <<IF hc.Endpoints.isNil THEN Field("endpoints", "null", <<>>)
      ELSE Field("endpoints", "array", hc.Endpoints.elems)>>

\* one struct as a JSON object: hashring and tenants are omitempty,
\* endpoints is always written, a nil slice as null
MarshalOne(hc) ==
    (IF hc.Hashring = <<>> THEN <<>>
     ELSE <<Field("hashring", "string", <<hc.Hashring>>)>>)
    \o (IF hc.Tenants.elems = <<>> THEN <<>>
        ELSE <<Field("tenants", "array", hc.Tenants.elems)>>)
    \o <<IF hc.Endpoints.isNil THEN Field("endpoints", "null", <<>>)
         ELSE Field("endpoints", "array", hc.Endpoints.elems)>>

HasMembers(hc) == hc.Endpoints.elems # <<>>

\* an encoder that leaves out the definitions without members
MarshalDropEmpty(hs) ==
    JsonDoc([i \in 1..Len(SelectSeq(hs, HasMembers)) |->
                MarshalOne(SelectSeq(hs, HasMembers)[i])])

\* json.Marshal(hashrings)
Marshal(hs) == JsonDoc([i \in 1..Len(hs) |-> MarshalOne(hs[i])])

HasKey(obj, k) == \E i \in 1..Len(obj) : obj[i].key = k

\* the last field of that name wins, as in encoding/json
Lookup(obj, k) ==
    obj[CHOOSE i \in 1..Len(obj) :
            obj[i].key = k /\ \A j \in (i+1)..Len(obj) : obj[j].key # k]

StringOf(obj, k) ==
    IF HasKey(obj, k) /\ Lookup(obj, k).type = "string"
    THEN Lookup(obj, k).val[1] ELSE <<>>

SliceOf(obj, k) ==
    IF HasKey(obj, k) /\ Lookup(obj, k).type = "array"
    THEN MkSlice(Lookup(obj, k).val) ELSE NilSlice

UnmarshalOne(obj) ==
    HashringConfig(StringOf(obj, "hashring"), SliceOf(obj, "tenants"),
                   SliceOf(obj, "endpoints"))

\* a decoder that takes anything for an empty list of definitions
UnmarshalOkAlways(bytes) == TRUE

\* json.Unmarshal(body, &hashrings): the error, or the decoded structs
UnmarshalOk(bytes) == bytes.kind = "json"

Unmarshal(bytes) == [i \in 1..Len(bytes.objs) |-> UnmarshalOne(bytes.objs[i])]

\* sha256.Sum256: distinct contents have distinct digests
Sha256Sum(bytes) == [sum |-> bytes]

\* a comparison that never finds the digests equal
SameDigestNever(a, b) == FALSE

\* a comparison that always finds the digests equal
SameDigestAlways(a, b) == TRUE

\* string(gFileSha256Sum[:]) == string(contentSha256Sum[:])
SameDigest(a, b) == Sha256Sum(a) = Sha256Sum(b)

(***************************************************************************)
(* File paths: a path is a sequence of tokens; ".json" is one token, and   *)
(* no other token has ".json" in it or shares a part with it.              *)
(***************************************************************************)
File1 == <<"x", ".json">>
File2 == <<"y", ".json">>

\* the source files present in the watched directory
SourceFiles == {File1, File2}

RECURSIVE UpToToken(_, _)
UpToToken(path, tok) ==
    IF path = <<>> \/ Head(path) = tok THEN <<>>
    ELSE <<Head(path)>> \o UpToToken(Tail(path), tok)

\* fmt.Sprintf("%s_generated.json", strings.Split(file, ".json")[0])
GeneratedFile(file) == UpToToken(file, ".json") \o <<"_generated", ".json">>

GeneratedFiles == {GeneratedFile(f) : f \in SourceFiles}

(***************************************************************************)
(* Inputs: member addresses and the contents of the source files.          *)
(***************************************************************************)
AddrA1  == <<"a", ":", "1">>
AddrB9  == <<"b", ":", "9">>
AddrB10 == <<"b", ":", "1", "0">>
\* an address with no port: valid JSON, no host:port pair
AddrNoPort == <<"c">>

EndpointsOnly(es) == <<Field("endpoints", "array", es)>>

\* one definition, members out of order ("b:10" sorts before "b:9")
DocPair == JsonDoc(<<EndpointsOnly(<<AddrB9, AddrB10>>)>>)
\* one definition listing the same member twice
DocDup == JsonDoc(<<EndpointsOnly(<<AddrA1, AddrA1>>)>>)
\* two definitions, the first named and with a tenant
DocTwo == JsonDoc(<< <<Field("hashring", "string", << <<"h">> >>),
                       Field("tenants", "array", << <<"t">> >>),
                       Field("endpoints", "array", <<AddrB9>>)>>,
                     EndpointsOnly(<<AddrA1>>) >>)
DocOne == JsonDoc(<<EndpointsOnly(<<AddrA1>>)>>)
DocNoPort == JsonDoc(<<EndpointsOnly(<<AddrNoPort>>)>>)

SourceChoices(f) ==
    IF f = File1 THEN {DocPair, DocDup, DocTwo, Garbage}
    ELSE {DocOne, DocNoPort}

\* values of the -interval and -endpoint-timeout flags
Seconds == {1, 2}

\* the parsed command line: file and directory say whether the flag is set
Configs == [file : BOOLEAN, directory : BOOLEAN, interval : Seconds,
            timeout : Seconds, schedule : BOOLEAN, version : BOOLEAN]

(***************************************************************************)
(* What one readiness request can come back with: an error from Do (no     *)
(* response: refused, timed out), or a status and the bytes ReadAll got,   *)
(* with readErr when the body ended in an error (timeout or broken         *)
(* connection before its end).                                             *)
(***************************************************************************)
Responses ==
    {[err |-> TRUE, status |-> 0, body |-> "", readErr |-> FALSE]}
    \cup [err : {FALSE}, status : {200, 503}, body : {"OK", "ok"},
          readErr : BOOLEAN]

\* healthyEndpoint's test; the error of ioutil.ReadAll is dropped
IsReady(resp) == ~resp.err /\ resp.status = 200 /\ resp.body = "OK"

\* endpointSplit[1] on an address without ":" is an index out of range
ProbePanics(endpoint) == Len(Split(endpoint, ":")) < 2

(***************************************************************************)
(* State.                                                                  *)
(***************************************************************************)
VARIABLES
    cfg,          \* the parsed flags
    source,       \* source file -> its bytes
    disk,         \* generated file -> [state, bytes]
    mainPc,       \* main: start, fatal, oneshot, waitSignal, exited, crashed
    schedPc,      \* scheduler goroutine: none, select, run
    sigPc,        \* signal goroutine: none, waiting, notified
    tickPending,  \* a tick waits in ticker.C (capacity 1)
    ticks,        \* ticks delivered so far
    inFlight,     \* calls of run() that have not returned
    runFiles,     \* the files of the run in flight (or of the last one)
    pc,           \* file -> idle, start, probing, materialize, save, done
    hashrings,    \* file -> the decoded structs, reconciled in place
    pos,          \* file -> index of the definition being reconciled
    probes,       \* file -> per member of that definition: the probe task
    wgEndpoint,   \* file -> the wait group counter of that definition
    queue,        \* file -> the buffered result channel
    closed,       \* file -> the channel is closed
    endpoints,    \* file -> the slice the collector appends to
    content,      \* file -> the marshalled bytes
    cur,          \* file -> what the pipeline of this run observed and did
    prev          \* file -> the same, for the run before

vars == <<cfg, source, disk, mainPc, schedPc, sigPc, tickPending, ticks,
          inFlight, runFiles, pc, hashrings, pos, probes, wgEndpoint, queue,
          closed, endpoints, content, cur, prev>>

procVars == <<cfg, source, mainPc, schedPc, sigPc, tickPending, ticks,
              inFlight, runFiles, prev>>

defVars == <<pos, probes, wgEndpoint, queue, closed, endpoints>>

\* a generated file: there or not, its bytes, and whose it is: "process" for
\* the user the controller runs as, "configured" for the -owner user
Absent == [state |-> "absent", bytes |-> NoBytes, owner |-> "none"]

OnDisk(bytes, owner) == [state |-> "file", bytes |-> bytes, owner |-> owner]

\* a pipeline's record: ran, the probes found ready per definition, the
\* generated file as the run found it, how the pipeline ended
NoRecord == [ran |-> FALSE, ready |-> <<>>, before |-> Absent,
             result |-> "none"]

NoProbes == <<>>

Init ==
    /\ cfg \in Configs
    /\ source \in {s \in [SourceFiles -> UNION {SourceChoices(f) : f \in SourceFiles}] :
                     /\ \A f \in SourceFiles : s[f] \in SourceChoices(f)
                     \* without -directory only File1 is ever read
                     /\ ~cfg.directory => s[File2] = DocOne
                     \* the scheduler is explored over a directory in
                     \* which one of the two files decodes
                     /\ cfg.directory /\ cfg.schedule => s[File1] = Garbage}
    /\ disk = [g \in GeneratedFiles |-> Absent]
    /\ mainPc = "start"
    /\ schedPc = "none"
    /\ sigPc = "none"
    /\ tickPending = FALSE
    /\ ticks = 0
    /\ inFlight = 0
    /\ runFiles = {}
    /\ pc = [f \in SourceFiles |-> "idle"]
    /\ hashrings = [f \in SourceFiles |-> <<>>]
    /\ pos = [f \in SourceFiles |-> 0]
    /\ probes = [f \in SourceFiles |-> NoProbes]
    /\ wgEndpoint = [f \in SourceFiles |-> 0]
    /\ queue = [f \in SourceFiles |-> <<>>]
    /\ closed = [f \in SourceFiles |-> FALSE]
    /\ endpoints = [f \in SourceFiles |-> NilSlice]
    /\ content = [f \in SourceFiles |-> NoBytes]
    /\ cur = [f \in SourceFiles |-> NoRecord]
    /\ prev = [f \in SourceFiles |-> NoRecord]

(***************************************************************************)
(* main: flags, validation, one-shot run or scheduler.                     *)
(***************************************************************************)
Alive == mainPc \in {"oneshot", "waitSignal"}

\* a validation that lets interval = timeout through
ConfigInvalidStrict(c) ==
    \/ (~c.directory /\ ~c.file) \/ (c.directory /\ c.file)
    \/ c.interval < c.timeout

\* the two log.Fatal tests of main
ConfigInvalid(c) ==
    \/ (~c.directory /\ ~c.file) \/ (c.directory /\ c.file)
    \/ c.interval <= c.timeout

\* strings.HasSuffix(path, suffix)
HasSuffix(path, suffix) ==
    /\ Len(path) >= Len(suffix)
    /\ SubSeq(path, Len(path) - Len(suffix) + 1, Len(path)) = suffix

\* a filter that takes every .json file
IsHashringFileAnyJson(path) == HasSuffix(path, <<".json">>)

\* the test of listHashringFiles: *.json but not *_generated.json
IsHashringFile(path) ==
    /\ ~HasSuffix(path, <<"_generated", ".json">>)
    /\ HasSuffix(path, <<".json">>)

\* what filepath.Walk visits: the source files and the generated files written
DirEntries == SourceFiles \cup {g \in GeneratedFiles : disk[g].state = "file"}

\* listHashringFiles: the entries that pass the test
ListHashringFiles == {p \in DirEntries : IsHashringFile(p)}

\* buildFilesList: the -file argument (File1 here), or the directory's files
BuildFilesList == IF cfg.file THEN {File1} ELSE ListHashringFiles

\* run(): one goroutine per file, all locals fresh
LaunchRun(files) ==
    /\ runFiles' = files
    /\ inFlight' = inFlight + 1
    /\ pc' = [f \in SourceFiles |-> IF f \in files THEN "start" ELSE "idle"]
    /\ hashrings' = [f \in SourceFiles |-> <<>>]
    /\ pos' = [f \in SourceFiles |-> 0]
    /\ probes' = [f \in SourceFiles |-> NoProbes]
    /\ wgEndpoint' = [f \in SourceFiles |-> 0]
    /\ queue' = [f \in SourceFiles |-> <<>>]
    /\ closed' = [f \in SourceFiles |-> FALSE]
    /\ endpoints' = [f \in SourceFiles |-> NilSlice]
    /\ content' = [f \in SourceFiles |-> NoBytes]
    /\ prev' = [f \in SourceFiles |-> [cur[f] EXCEPT !.before = Absent]]
    /\ cur' = [f \in SourceFiles |->
                 IF f \in files
                 THEN [NoRecord EXCEPT !.ran = TRUE,
                                       !.before = disk[GeneratedFile(f)]]
                 ELSE NoRecord]

runVars == <<runFiles, inFlight, pc, hashrings, pos, probes, wgEndpoint,
             queue, closed, endpoints, content, cur, prev>>

\* the process ends: its goroutines, channels, ticker and locals go with it;
\* the files stay, and so does the account of what the runs did
ProcessEnds(how) ==
    /\ mainPc' = how
    /\ schedPc' = "none"
    /\ sigPc' = "none"
    /\ tickPending' = FALSE
    /\ ticks' = 0
    /\ pc' = [f \in SourceFiles |-> "idle"]
    /\ hashrings' = [f \in SourceFiles |-> <<>>]
    /\ pos' = [f \in SourceFiles |-> 0]
    /\ probes' = [f \in SourceFiles |-> NoProbes]
    /\ wgEndpoint' = [f \in SourceFiles |-> 0]
    /\ queue' = [f \in SourceFiles |-> <<>>]
    /\ closed' = [f \in SourceFiles |-> FALSE]
    /\ endpoints' = [f \in SourceFiles |-> NilSlice]
    /\ content' = [f \in SourceFiles |-> NoBytes]
    /\ UNCHANGED <<cfg, source, disk, runFiles, cur, prev>>

\* -version prints and exits before anything else
StartVersion ==
    /\ mainPc = "start" /\ cfg.version
    /\ mainPc' = "exited"
    /\ UNCHANGED <<cfg, source, disk, schedPc, sigPc, tickPending, ticks>>
    /\ UNCHANGED runVars

StartFatal ==
    /\ mainPc = "start" /\ ~cfg.version /\ ConfigInvalid(cfg)
    /\ mainPc' = "fatal"
    /\ UNCHANGED <<cfg, source, disk, schedPc, sigPc, tickPending, ticks>>
    /\ UNCHANGED runVars

StartOneShot ==
    /\ mainPc = "start" /\ ~cfg.version /\ ~ConfigInvalid(cfg)
    /\ ~cfg.schedule
    /\ mainPc' = "oneshot"
    /\ LaunchRun(BuildFilesList)
    /\ UNCHANGED <<cfg, source, disk, schedPc, sigPc, tickPending, ticks>>

\* the ticker, the scheduler goroutine and the signal goroutine start;
\* main blocks on signalDone
StartScheduler ==
    /\ mainPc = "start" /\ ~cfg.version /\ ~ConfigInvalid(cfg)
    /\ cfg.schedule
    /\ mainPc' = "waitSignal"
    /\ schedPc' = "select"
    /\ sigPc' = "waiting"
    /\ UNCHANGED <<cfg, source, disk, tickPending, ticks>>
    /\ UNCHANGED runVars

\* the runtime's ticker: a tick is dropped when ticker.C is full
Tick ==
    /\ mainPc = "waitSignal"
    /\ ticks < MaxTicks
    /\ ticks' = ticks + 1
    /\ tickPending' = TRUE
    /\ UNCHANGED <<cfg, source, disk, mainPc, schedPc, sigPc>>
    /\ UNCHANGED runVars

\* a scheduler that starts each run in a goroutine of its own
SchedulerReadyAlways == schedPc \in {"select", "run"}

\* the scheduler goroutine is at its select (run() is called in line, so the
\* loop comes back to the select only when run() has returned)
SchedulerReady == schedPc = "select"

\* case t := <-ticker.C
SchedTick ==
    /\ Alive /\ SchedulerReady /\ tickPending
    /\ tickPending' = FALSE
    /\ schedPc' = "run"
    /\ LaunchRun(BuildFilesList)
    /\ UNCHANGED <<cfg, source, disk, mainPc, sigPc, ticks>>

\* SIGINT or SIGTERM arrives; the signal goroutine receives it from sigs and
\* sends on signalDone (capacity 1, so the send does not wait for main)
Signal ==
    /\ mainPc = "waitSignal" /\ sigPc = "waiting"
    /\ sigPc' = "notified"
    /\ UNCHANGED <<cfg, source, disk, mainPc, schedPc, tickPending, ticks>>
    /\ UNCHANGED runVars

\* <-signalDone: main returns and the process ends with it; nothing is sent
\* on scheduleDone and nothing waits for the scheduler goroutine
MainStop ==
    /\ mainPc = "waitSignal" /\ sigPc = "notified"
    /\ ProcessEnds("exited")
    /\ UNCHANGED inFlight

(***************************************************************************)
(* checkHashringFile: the pipeline of one file.                            *)
(***************************************************************************)
FreshProbe == [state |-> "inflight", reqs |-> 0, sent |-> FALSE,
               gotOK |-> FALSE, answeredOK |-> FALSE]

\* the member answered with status 200 and the bytes OK
AnsweredOK(resp) == resp.status = 200 /\ resp.body = "OK"

\* the response is a complete one, status 200 and body OK, with no error
CleanOK(resp) ==
    ~resp.err /\ ~resp.readErr /\ resp.status = 200 /\ resp.body = "OK"

\* the pipeline returns (defer wg.Done())
Finish(f, result) ==
    /\ pc' = [pc EXCEPT ![f] = "done"]
    /\ cur' = [cur EXCEPT ![f].result = result]

\* one iteration of the range loop starts: channel of capacity n, n probe
\* goroutines, the closer goroutine, the collector
DefStart(f, p, n) ==
    /\ pos' = [pos EXCEPT ![f] = p]
    /\ probes' = [probes EXCEPT ![f] = [i \in 1..n |-> FreshProbe]]
    /\ wgEndpoint' = [wgEndpoint EXCEPT ![f] = n]
    /\ queue' = [queue EXCEPT ![f] = <<>>]
    /\ closed' = [closed EXCEPT ![f] = FALSE]
    /\ endpoints' = [endpoints EXCEPT ![f] = NilSlice]

\* the loop is over: its locals are gone
DefEnd(f) ==
    /\ pos' = [pos EXCEPT ![f] = 0]
    /\ probes' = [probes EXCEPT ![f] = NoProbes]
    /\ wgEndpoint' = [wgEndpoint EXCEPT ![f] = 0]
    /\ queue' = [queue EXCEPT ![f] = <<>>]
    /\ closed' = [closed EXCEPT ![f] = FALSE]
    /\ endpoints' = [endpoints EXCEPT ![f] = NilSlice]

\* ioutil.ReadFile(file), json.Unmarshal, and the start of the first definition
ReadDecode(f) ==
    /\ Alive /\ pc[f] = "start"
    /\ \E readOk \in BOOLEAN :
         IF ~readOk
         THEN Finish(f, "readerr") /\ UNCHANGED <<hashrings, content>>
              /\ UNCHANGED defVars
         ELSE IF ~UnmarshalOk(source[f])
         THEN Finish(f, "decodeerr") /\ UNCHANGED <<hashrings, content>>
              /\ UNCHANGED defVars
         ELSE LET hs == Unmarshal(source[f]) IN
              /\ hashrings' = [hashrings EXCEPT ![f] = hs]
              /\ IF Len(hs) = 0
                 THEN /\ pc' = [pc EXCEPT ![f] = "materialize"]
                      /\ content' = [content EXCEPT ![f] = Marshal(hs)]
                      /\ UNCHANGED defVars
                 ELSE /\ pc' = [pc EXCEPT ![f] = "probing"]
                      /\ DefStart(f, 1, Len(hs[1].Endpoints.elems))
                      /\ UNCHANGED content
              /\ UNCHANGED cur
    /\ UNCHANGED <<disk, procVars>>

Member(f, i) == hashrings[f][pos[f]].Endpoints.elems[i]

\* healthyEndpoint: one GET, the test, the send, wg.Done()
ProbeComplete(f, i) ==
    /\ Alive /\ pc[f] = "probing"
    /\ i \in 1..Len(probes[f]) /\ probes[f][i].state = "inflight"
    /\ ~ProbePanics(Member(f, i))
    /\ \E resp \in Responses :
         /\ IsReady(resp) => Len(queue[f]) < Len(probes[f])
         /\ queue' = [queue EXCEPT ![f] =
                        IF IsReady(resp) THEN Append(@, Member(f, i)) ELSE @]
         /\ probes' = [probes EXCEPT ![f][i] =
                         [state |-> "done", reqs |-> @.reqs + 1,
                          sent |-> IsReady(resp), gotOK |-> CleanOK(resp),
                          answeredOK |-> AnsweredOK(resp)]]
    /\ wgEndpoint' = [wgEndpoint EXCEPT ![f] = @ - 1]
    /\ UNCHANGED <<disk, procVars, pc, hashrings, pos, closed, endpoints,
                   content, cur>>

\* healthyEndpoint on an address without ":": the goroutine panics and the
\* runtime ends the process
ProbePanic(f, i) ==
    /\ Alive /\ pc[f] = "probing"
    /\ i \in 1..Len(probes[f]) /\ probes[f][i].state = "inflight"
    /\ ProbePanics(Member(f, i))
    /\ ProcessEnds("crashed")
    /\ UNCHANGED inFlight

\* a closer that does not wait for the probes
CloserReadyNoWait(f) == TRUE

\* wgEndpoint.Wait() returns
CloserReady(f) == wgEndpoint[f] = 0

\* go func() { wgEndpoint.Wait(); close(queue) }()
CloseQueue(f) ==
    /\ Alive /\ pc[f] = "probing" /\ ~closed[f]
    /\ CloserReady(f)
    /\ closed' = [closed EXCEPT ![f] = TRUE]
    /\ UNCHANGED <<disk, procVars, pc, hashrings, pos, probes, wgEndpoint,
                   queue, endpoints, content, cur>>

\* for result := range queue { endpoints = append(endpoints, result) }
Receive(f) ==
    /\ Alive /\ pc[f] = "probing" /\ queue[f] # <<>>
    /\ endpoints' = [endpoints EXCEPT ![f] = AppendSlice(@, Head(queue[f]))]
    /\ queue' = [queue EXCEPT ![f] = Tail(@)]
    /\ UNCHANGED <<disk, procVars, pc, hashrings, pos, probes, wgEndpoint,
                   closed, content, cur>>

\* the range loop ends on the closed, drained channel: sort, store, and go on
\* to the next definition or to json.Marshal
CollectDone(f) ==
    /\ Alive /\ pc[f] = "probing" /\ closed[f] /\ queue[f] = <<>>
    /\ LET sorted == [endpoints[f] EXCEPT !.elems = SortStrings(@)]
           hs == [hashrings[f] EXCEPT ![pos[f]].Endpoints = sorted]
           readyIdx == {i \in 1..Len(probes[f]) : probes[f][i].sent}
       IN /\ hashrings' = [hashrings EXCEPT ![f] = hs]
          /\ cur' = [cur EXCEPT ![f].ready = Append(@, readyIdx)]
          /\ IF pos[f] < Len(hs)
             THEN /\ DefStart(f, pos[f] + 1,
                              Len(hs[pos[f] + 1].Endpoints.elems))
                  /\ UNCHANGED <<pc, content>>
             ELSE /\ DefEnd(f)
                  /\ pc' = [pc EXCEPT ![f] = "materialize"]
                  /\ content' = [content EXCEPT ![f] = Marshal(hs)]
    /\ UNCHANGED <<disk, procVars>>

\* an error branch that logs and goes on to the write
GenReadErrorGoesOn(f) ==
    /\ pc' = [pc EXCEPT ![f] = "save"]
    /\ cur' = [cur EXCEPT ![f].result = "genreaderr"]

\* the generated file is there and ReadFile fails: log and return
GenReadError(f) == Finish(f, "genreaderr")

\* os.Stat, ioutil.ReadFile of the generated file and the digest comparison.
\* os.Stat succeeds exactly when the file is there.
Compare(f) ==
    /\ Alive /\ pc[f] = "materialize"
    /\ LET g == GeneratedFile(f) IN
       IF disk[g].state = "absent"
       THEN pc' = [pc EXCEPT ![f] = "save"] /\ UNCHANGED cur
       ELSE \E readOk \in BOOLEAN :
              IF ~readOk THEN GenReadError(f)
              ELSE IF SameDigest(disk[g].bytes, content[f])
              THEN Finish(f, "same")
              ELSE pc' = [pc EXCEPT ![f] = "save"] /\ UNCHANGED cur
    /\ UNCHANGED <<disk, procVars, hashrings, content>>
    /\ UNCHANGED defVars

\* ioutil.WriteFile opens the target with O_WRONLY|O_CREATE|O_TRUNC, writes
\* and closes: it fails at the open (the file is as it was), or after the
\* open (no space, quota, I/O error: the file is there, cut to a part of the
\* bytes), or it succeeds
WriteOutcomes == {"openerr", "torn", "ok"}

\* what a write that failed after the open leaves: a strict prefix of the
\* bytes, which is no JSON document and has another digest (the empty
\* prefix stands for all)
Torn(bytes) == NoBytes

\* saveHashringFile: user.Lookup, ioutil.WriteFile, os.Chown.  A file that
\* WriteFile creates is the process user's, one it rewrites keeps its owner.
Save(f) ==
    /\ Alive /\ pc[f] = "save"
    /\ LET g == GeneratedFile(f)
           keeps == IF disk[g].state = "file" THEN disk[g].owner ELSE "process"
       IN
       \E lookupOk \in BOOLEAN, write \in WriteOutcomes, chownOk \in BOOLEAN :
         IF ~lookupOk THEN Finish(f, "lookuperr") /\ UNCHANGED disk
         ELSE IF write = "openerr"
         THEN Finish(f, "writeerr") /\ UNCHANGED disk
         ELSE IF write = "torn"
         THEN /\ disk' = [disk EXCEPT ![g] = OnDisk(Torn(content[f]), keeps)]
              /\ Finish(f, "tornwrite")
         ELSE IF ~chownOk
         THEN /\ disk' = [disk EXCEPT ![g] = OnDisk(content[f], keeps)]
              /\ Finish(f, "chownerr")
         ELSE /\ disk' = [disk EXCEPT ![g] = OnDisk(content[f], "configured")]
              /\ Finish(f, "saved")
    /\ UNCHANGED <<procVars, hashrings, content>>
    /\ UNCHANGED defVars

(***************************************************************************)
(* run() returns.                                                          *)
(***************************************************************************)
\* a run that does not wait for its file goroutines
RunWaitDoneNoWait == TRUE

\* wg.Wait() of run() returns
RunWaitDone == \A f \in runFiles : pc[f] = "done"

\* one-shot mode: run() returns, main returns
RunReturnOneShot ==
    /\ mainPc = "oneshot" /\ inFlight > 0
    /\ RunWaitDone
    /\ inFlight' = inFlight - 1
    /\ ProcessEnds("exited")

\* scheduled mode: run() returns, the loop is back at its select
RunReturnScheduled ==
    /\ Alive /\ schedPc = "run" /\ inFlight > 0
    /\ RunWaitDone
    /\ inFlight' = inFlight - 1
    /\ schedPc' = "select"
    /\ UNCHANGED <<cfg, source, disk, mainPc, sigPc, tickPending, ticks,
                   runFiles, pc, hashrings, content, cur, prev>>
    /\ UNCHANGED defVars

PipelineStep(f) ==
    \/ ReadDecode(f)
    \/ \E i \in DOMAIN probes[f] : ProbeComplete(f, i)
    \/ \E i \in DOMAIN probes[f] : ProbePanic(f, i)
    \/ CloseQueue(f)
    \/ Receive(f)
    \/ CollectDone(f)
    \/ Compare(f)
    \/ Save(f)

Next ==
    \/ StartVersion
    \/ StartFatal
    \/ StartOneShot
    \/ StartScheduler
    \/ Tick
    \/ SchedTick
    \/ Signal
    \/ MainStop
    \/ \E f \in SourceFiles : PipelineStep(f)
    \/ RunReturnOneShot
    \/ RunReturnScheduled

Spec == Init /\ [][Next]_vars

(***************************************************************************)
(* Vocabulary of the properties.                                           *)
(***************************************************************************)
Addresses == {AddrA1, AddrB9, AddrB10, AddrNoPort}

Count(seq, x) == Cardinality({i \in 1..Len(seq) : seq[i] = x})

\* no element is followed, anywhere, by a smaller one
IsSorted(seq) == \A i, j \in 1..Len(seq) : i < j => ~StrLess(seq[j], seq[i])

StrictlySorted(seq) == \A i, j \in 1..Len(seq) : i < j => StrLess(seq[i], seq[j])

\* the members definition p of file f lists, as written in the source
Listed(f, p) == SliceOf(source[f].objs[p], "endpoints").elems

\* how many of the probes in readySet were probes of address a
ReadyCount(f, p, readySet, a) ==
    Cardinality({i \in readySet : Listed(f, p)[i] = a})

\* seq is the sorted list with one entry per ready probe
IsReconciled(seq, f, p, readySet) ==
    /\ IsSorted(seq)
    /\ \A a \in Addresses : Count(seq, a) = ReadyCount(f, p, readySet, a)

\* definition p of file f has been reconciled in the run in flight and the
\* pipeline's structs are still there
Reconciled(f, p) == p \in 1..Len(cur[f].ready) /\ p \in 1..Len(hashrings[f])

MembersOut(f, p) == hashrings[f][p].Endpoints.elems

(***************************************************************************)
(* C1 (as amended).  Whenever a definition has been reconciled, its        *)
(* member list is sorted in byte-wise order and holds each address once    *)
(* per probe of it that returned ready (a member listed twice and ready    *)
(* twice is there twice).  The list is a function of the listed members    *)
(* and of which probes were ready alone, so it does not depend on the      *)
(* order in which the probes complete nor on the order of the input.       *)
(***************************************************************************)
C1_SortedReadyMembers ==
    \A f \in SourceFiles : \A p \in 1..Len(cur[f].ready) :
        Reconciled(f, p) => IsReconciled(MembersOut(f, p), f, p, cur[f].ready[p])

\* C1 as stated: the member list is the sorted set of the ready addresses
C1_SortedReadySet ==
    \A f \in SourceFiles : \A p \in 1..Len(cur[f].ready) :
        Reconciled(f, p) =>
            /\ StrictlySorted(MembersOut(f, p))
            /\ \A a \in Addresses :
                 Count(MembersOut(f, p), a) > 0
                     <=> ReadyCount(f, p, cur[f].ready[p], a) > 0

\* both members of the pair were ready and came out in sorted order, which
\* is not the order of the input
C1_Witness ==
    /\ source[File1] = DocPair
    /\ Reconciled(File1, 1)
    /\ cur[File1].ready[1] = {1, 2}
    /\ MembersOut(File1, 1) = <<AddrB10, AddrB9>>

\* the pipeline this record is of has returned
Finished(r) == r.result # "none"

\* ioutil.WriteFile succeeded in the pipeline this record is of
Wrote(r) == r.result \in {"saved", "chownerr"}

\* the pipeline ended with the generated file holding the bytes it computed
Held(r) == r.result \in {"saved", "chownerr", "same"}

NDefs(f) == Len(source[f].objs)

\* the generated file of f decodes to the definitions of f, each with the
\* reconciled member list for the ready probes given
DiskHolds(f, ready) ==
    LET file == disk[GeneratedFile(f)] IN
    /\ file.state = "file" /\ UnmarshalOk(file.bytes)
    /\ Len(Unmarshal(file.bytes)) = NDefs(f) /\ Len(ready) = NDefs(f)
    /\ \A p \in 1..NDefs(f) :
         IsReconciled(Unmarshal(file.bytes)[p].Endpoints.elems, f, p, ready[p])

\* some address has more, or fewer, ready probes in this run than in the last
ReadinessDiffers(f) ==
    \E p \in 1..NDefs(f) : \E a \in Addresses :
        ReadyCount(f, p, prev[f].ready[p], a) # ReadyCount(f, p, cur[f].ready[p], a)

(***************************************************************************)
(* C2.  Idempotence.  When the pipeline of a file wrote the generated file *)
(* in one run, and the next run probes the same source with the same       *)
(* outcome for every member, the next run's pipeline never reaches         *)
(* saveHashringFile: it ends on the digest comparison (or on reading the   *)
(* generated file), and the generated file is, bytes and all, what the run *)
(* found.  So the two runs write the file once.                            *)
(***************************************************************************)
C2_SecondRunWritesNothing ==
    \A f \in SourceFiles :
        ( /\ prev[f].ran /\ Wrote(prev[f])
          /\ cur[f].ran /\ cur[f].ready = prev[f].ready )
        => /\ pc[f] # "save"
           /\ cur[f].result \in {"none", "same", "genreaderr"}
           /\ disk[GeneratedFile(f)] = cur[f].before
           /\ disk[GeneratedFile(f)].state = "file"

\* a first run that saved, a second one with the same outcomes that found
\* the digests equal
C2_Witness ==
    \E f \in SourceFiles :
        /\ prev[f].result = "saved" /\ cur[f].ready = prev[f].ready
        /\ cur[f].result = "same"
        /\ \E p \in 1..NDefs(f) : cur[f].ready[p] # {}

C4_ReadyIffCleanOK ==
    \A f \in SourceFiles : \A i \in DOMAIN probes[f] :
        probes[f][i].state = "done" =>
            /\ probes[f][i].reqs = 1
            /\ probes[f][i].sent <=> probes[f][i].gotOK

(***************************************************************************)
(* C5.  A definition none of whose probes was ready is reconciled to a     *)
(* list of no members, the pipeline goes on to materialization, where      *)
(* with no generated file yet it calls saveHashringFile, and a generated   *)
(* file that holds the pipeline's bytes has as many definitions as the     *)
(* source, this one among them with an endpoints field of no members       *)
(* (encoding/json writes the nil slice as null).                           *)
(***************************************************************************)
C5_EmptyDefinitionIsWritten ==
    \A f \in SourceFiles : \A p \in 1..Len(cur[f].ready) :
        cur[f].ready[p] = {} =>
            /\ Reconciled(f, p) => MembersOut(f, p) = <<>>
            /\ cur[f].result \notin {"readerr", "decodeerr"}
            /\ (Alive /\ Len(cur[f].ready) = NDefs(f))
                   => pc[f] \in {"materialize", "save", "done"}
            /\ (Finished(cur[f]) /\ cur[f].before = Absent)
                   => cur[f].result \in {"saved", "chownerr", "lookuperr",
                                          "writeerr", "tornwrite"}
            /\ Held(cur[f]) =>
                 LET file == disk[GeneratedFile(f)] IN
                 /\ file.state = "file" /\ UnmarshalOk(file.bytes)
                 /\ Len(file.bytes.objs) = NDefs(f)
                 /\ HasKey(file.bytes.objs[p], "endpoints")
                 /\ Unmarshal(file.bytes)[p].Endpoints.elems = <<>>

\* the first definition of two lost all its members, the second kept its
\* one, and the file was saved with both
C5_Witness ==
    /\ source[File1] = DocTwo
    /\ cur[File1].ready = <<{}, {1}>>
    /\ cur[File1].result = "saved"
    /\ Lookup(disk[GeneratedFile(File1)].bytes.objs[1], "endpoints").type = "null"
    /\ Unmarshal(disk[GeneratedFile(File1)].bytes)[2].Endpoints.elems = <<AddrA1>>

(***************************************************************************)
(* C6, as stated.  No failure of a file's pipeline or of a member's probe  *)
(* ends the process: the pipelines of the other files of the run are never *)
(* cut short by it.                                                        *)
(***************************************************************************)
C6_FailuresAreContained == mainPc # "crashed"

(***************************************************************************)
(* C7, as stated.  In scheduled mode the process does not stop while a run *)
(* is in flight: when it has stopped, every file pipeline of the last run  *)
(* started has returned.                                                   *)
(***************************************************************************)
C7_RunCompletesBeforeStop ==
    (cfg.schedule /\ mainPc = "exited") =>
        /\ inFlight = 0
        /\ \A f \in runFiles : Finished(cur[f])

(***************************************************************************)
(* C8.  Startup validation.  With an interval not greater than the         *)
(* timeout, or with both or neither of -file and -directory, main never    *)
(* gets past its start: no run is started, no goroutine, no probe, and no  *)
(* generated file is written; the process ends in log.Fatal (or has        *)
(* printed its version).  One-shot and scheduled mode alike.               *)
(***************************************************************************)
C8_InvalidConfigHalts ==
    (cfg.interval <= cfg.timeout \/ (cfg.file <=> cfg.directory)) =>
        /\ mainPc \in {"start", "fatal", "exited"}
        /\ mainPc = "exited" => cfg.version
        /\ schedPc = "none" /\ inFlight = 0 /\ runFiles = {}
        /\ \A f \in SourceFiles :
             ~cur[f].ran /\ pc[f] = "idle" /\ probes[f] = NoProbes
        /\ \A g \in GeneratedFiles : disk[g] = Absent

\* the boundary: interval equal to the timeout, in one-shot mode, is fatal
C8_Witness ==
    /\ mainPc = "fatal"
    /\ cfg.interval = cfg.timeout
    /\ cfg.file /\ ~cfg.directory /\ ~cfg.schedule

(***************************************************************************)
(* C9.  At no time are two runs in flight.                                 *)
(***************************************************************************)
C9_NoOverlappingRuns == inFlight <= 1

\* the next tick has arrived while the run of the tick before is still in
\* its second definition, a probe outstanding
C9_Witness ==
    /\ schedPc = "run" /\ inFlight = 1 /\ tickPending
    /\ \E f \in runFiles :
         /\ pc[f] = "probing" /\ pos[f] = 2
         /\ \E i \in DOMAIN probes[f] : probes[f][i].state = "inflight"

(***************************************************************************)
(* C10.  run() returns only when every file pipeline of its list has       *)
(* returned; a definition's channel is closed only when all its probes     *)
(* have finished; and, every probe coming back, a run in flight does       *)
(* return, unless the process has ended before.                            *)
(***************************************************************************)
C10_Joined ==
    /\ inFlight = 0 => \A f \in runFiles : Finished(cur[f])
    /\ \A f \in SourceFiles :
         (pc[f] = "probing" /\ closed[f]) =>
             /\ wgEndpoint[f] = 0
             /\ \A i \in DOMAIN probes[f] : probes[f][i].state = "done"

C10_RunReturns ==
    /\ []C10_Joined
    /\ (inFlight > 0) ~> (inFlight = 0 \/ ~Alive)

\* a run over both files of the directory has returned in a live scheduler
C10_Witness ==
    /\ inFlight = 0 /\ runFiles = SourceFiles /\ schedPc = "select"
    /\ \A f \in runFiles : Finished(cur[f])
    /\ \E f \in runFiles : cur[f].result = "saved"

(***************************************************************************)
(* The goroutines of a run are scheduled: a step of a pipeline that can be *)
(* taken is taken, every request comes back (in time or as a timeout), and *)
(* run() returns when its wait group lets it.                              *)
(***************************************************************************)
RunStep ==
    \/ \E f \in SourceFiles : PipelineStep(f)
    \/ RunReturnOneShot
    \/ RunReturnScheduled

LiveSpec == Init /\ [][Next]_vars /\ WF_vars(RunStep)
(***************************************************************************)
(* C11.  Reconciliation changes the member lists alone.  The structs of a  *)
(* pipeline, the bytes it marshals and the generated file it leaves have   *)
(* as many definitions as the source, and the definition at each position  *)
(* has the hashring name and the tenants of the source definition at that  *)
(* position, and no member the source does not list there.                 *)
(***************************************************************************)
\* the name and the tenants of definition p of file f, as written
SourceHashring(f, p) ==
    IF HasKey(source[f].objs[p], "hashring")
    THEN Lookup(source[f].objs[p], "hashring").val[1] ELSE <<>>

SourceTenants(f, p) ==
    IF HasKey(source[f].objs[p], "tenants")
    THEN Lookup(source[f].objs[p], "tenants").val ELSE <<>>

KeepsFrame(hs, f) ==
    /\ Len(hs) = NDefs(f)
    /\ \A p \in 1..Len(hs) :
         /\ hs[p].Hashring = SourceHashring(f, p)
         /\ hs[p].Tenants.elems = SourceTenants(f, p)
         /\ \A a \in Addresses :
              Count(hs[p].Endpoints.elems, a) <= Count(Listed(f, p), a)

C11_OnlyMembersChange ==
    \A f \in SourceFiles :
        /\ hashrings[f] # <<>> => KeepsFrame(hashrings[f], f)
        /\ content[f] # NoBytes =>
              UnmarshalOk(content[f]) /\ KeepsFrame(Unmarshal(content[f]), f)
        /\ Held(cur[f]) =>
              LET file == disk[GeneratedFile(f)] IN
              /\ file.state = "file" /\ UnmarshalOk(file.bytes)
              /\ KeepsFrame(Unmarshal(file.bytes), f)

\* two definitions written back: the first with its name and tenant and its
\* member, the second nameless and with no member left
C11_Witness ==
    /\ source[File1] = DocTwo
    /\ cur[File1].result = "saved"
    /\ cur[File1].ready = <<{1}, {}>>
    /\ LET out == Unmarshal(disk[GeneratedFile(File1)].bytes) IN
       /\ Len(out) = 2
       /\ out[1].Hashring = <<"h">> /\ out[1].Tenants.elems = << <<"t">> >>
       /\ out[1].Endpoints.elems = <<AddrB9>>
       /\ out[2].Hashring = <<>> /\ out[2].Tenants.elems = <<>>
       /\ out[2].Endpoints.elems = <<>>

(***************************************************************************)
(* C12.  When the generated file is there and reading it fails, the        *)
(* pipeline returns at once: it does not go on to saveHashringFile, and    *)
(* the generated file is, bytes and owner, the one the run found.          *)
(***************************************************************************)
C12_UnreadableGeneratedFileAborts ==
    \A f \in SourceFiles :
        cur[f].result = "genreaderr" =>
            /\ pc[f] \in {"done", "idle"}
            /\ cur[f].before.state = "file"
            /\ disk[GeneratedFile(f)] = cur[f].before

\* the read failed in a run whose bytes differ from the file's: a write
\* would have changed it
C12_Witness ==
    \E f \in SourceFiles :
        /\ cur[f].result = "genreaderr" /\ pc[f] = "done"
        /\ content[f] # NoBytes
        /\ disk[GeneratedFile(f)].state = "file"
        /\ UnmarshalOk(disk[GeneratedFile(f)].bytes)
        /\ ~SameDigest(disk[GeneratedFile(f)].bytes, content[f])

(***************************************************************************)
(* C13, as stated.  When saveHashringFile fails before its bytes are       *)
(* written (the owner is not found, or WriteFile returns an error), the    *)
(* generated file is what the run found: the same bytes if it was there,   *)
(* and no file if there was none.                                          *)
(***************************************************************************)
WriteFailed(r) == r.result \in {"lookuperr", "writeerr", "tornwrite"}

C13_FailedWriteLeavesFile ==
    \A f \in SourceFiles :
        WriteFailed(cur[f]) => disk[GeneratedFile(f)] = cur[f].before

(***************************************************************************)
(* C14.  A pipeline whose source cannot be read or does not decode returns *)
(* there: it has started no probe task and reconciled no definition, and   *)
(* the generated file of that source is, if there at all, what the run     *)
(* found.  A source that does not decode ends every pipeline so.           *)
(***************************************************************************)
SourceFailed(r) == r.result \in {"readerr", "decodeerr"}

C14_BadSourceAbortsBeforeProbes ==
    \A f \in SourceFiles :
        /\ SourceFailed(cur[f]) =>
              /\ pc[f] \in {"done", "idle"}
              /\ cur[f].ready = <<>> /\ hashrings[f] = <<>>
              /\ probes[f] = NoProbes /\ queue[f] = <<>>
              /\ content[f] = NoBytes
              /\ disk[GeneratedFile(f)] = cur[f].before
        /\ (cur[f].ran /\ source[f] = Garbage) =>
              /\ cur[f].result \in {"none", "readerr", "decodeerr"}
              /\ pc[f] \in {"start", "done", "idle"}

\* one source of the directory is no JSON and ended its pipeline at the
\* decoder, with no generated file; the other could not be read in a run
\* that found the generated file of the run before, and left it
C14_Witness ==
    /\ source[File1] = Garbage /\ cur[File1].result = "decodeerr"
    /\ disk[GeneratedFile(File1)] = Absent
    /\ cur[File2].result = "readerr" /\ prev[File2].result = "saved"
    /\ disk[GeneratedFile(File2)].state = "file"
    /\ DiskHolds(File2, prev[File2].ready)

(***************************************************************************)
(* C15, as stated.  In scheduled mode a run that follows a run in which a  *)
(* step of the file's pipeline failed, and in which itself nothing fails,  *)
(* leaves the generated file holding the reconciled definitions and owned  *)
(* by the configured owner.                                                *)
(***************************************************************************)
\* the pipeline returned without having logged an error
NoFault(r) == r.result \in {"saved", "same"}

C15_NextTickRepairs ==
    \A f \in SourceFiles :
        ( /\ cfg.schedule
          /\ prev[f].ran /\ Finished(prev[f]) /\ ~NoFault(prev[f])
          /\ cur[f].ran /\ NoFault(cur[f]) )
        => /\ DiskHolds(f, cur[f].ready)
           /\ disk[GeneratedFile(f)].owner = "configured"

(***************************************************************************)
(* C16, as stated.  Once the signal goroutine has received the termination *)
(* signal, no step of the process starts a run, whether or not a tick      *)
(* arrives before main has returned.                                       *)
(***************************************************************************)
SignalReceived == sigPc = "notified"

C16_StoppedStartsNoRun ==
    [][SignalReceived => inFlight' <= inFlight]_vars

(***************************************************************************)
(* File names a directory may hold, and those directory discovery returns. *)
(***************************************************************************)
NameTokens == {"x", ".bak", "_generated", ".json"}

RECURSIVE SeqsUpTo(_, _)
SeqsUpTo(S, n) ==
    IF n = 0 THEN {<<>>}
    ELSE LET shorter == SeqsUpTo(S, n - 1) IN
         shorter \cup {Append(q, t) : q \in shorter, t \in S}

DirNames == SeqsUpTo(NameTokens, MaxPathLen) \ {<<>>}

DiscoverableNames == {p \in DirNames : IsHashringFile(p)}

(***************************************************************************)
(* C17, as stated.  The files of a run have generated files of different   *)
(* names, and so have any two different names that directory discovery     *)
(* can return.                                                             *)
(***************************************************************************)
C17_DerivedPathsDistinct ==
    /\ \A a, b \in runFiles : a # b => GeneratedFile(a) # GeneratedFile(b)
    /\ \A a, b \in DiscoverableNames :
         a # b => GeneratedFile(a) # GeneratedFile(b)

(***************************************************************************)
(* C18.  Source files and generated files are apart.  The generated name   *)
(* of any name discovery can return does not pass the test of discovery;   *)
(* the files of every run are source files, none of them a file the        *)
(* controller writes, also when the directory is listed with generated     *)
(* files of earlier ticks in it; every file written is outside the source  *)
(* files; and no step changes the bytes of a source file.                  *)
(***************************************************************************)
GeneratedNamesNotListed ==
    \A n \in DiscoverableNames :
        /\ ~IsHashringFile(GeneratedFile(n))
        /\ GeneratedFile(n) \notin DiscoverableNames

C18_Disjoint ==
    /\ GeneratedNamesNotListed
    /\ runFiles \subseteq SourceFiles
    /\ runFiles \cap GeneratedFiles = {}
    /\ ListHashringFiles \cap GeneratedFiles = {}
    /\ \A g \in DOMAIN disk : disk[g].state = "file" => g \notin SourceFiles

C18_SourcesStayApart ==
    /\ []C18_Disjoint
    /\ [][source' = source]_vars

\* the second tick listed a directory that holds a generated file written
\* at the first tick, and its run is over the two source files
C18_Witness ==
    /\ cfg.directory /\ schedPc = "run" /\ ticks = 2
    /\ prev[File2].result = "saved" /\ cur[File2].ran
    /\ disk[GeneratedFile(File2)].state = "file"
    /\ GeneratedFile(File2) \in DirEntries
    /\ runFiles = SourceFiles

(***************************************************************************)
(* C19.  The result channel of a definition.  A probe task sends at most   *)
(* once, and only as it finishes, its member having answered 200 and OK:   *)
(* the results sent so far, waiting in the channel or already received,    *)
(* are as many as the probe tasks that sent, one each, and none is of a    *)
(* task still running.  The channel never holds more than its capacity,    *)
(* the number of members, and while a task is still running there is room  *)
(* in it, so a send does not block.  The channel is closed only when every *)
(* task has finished, so nothing is sent on the closed channel.  And when  *)
(* the collector stops, it has received one result for each task that      *)
(* sent.                                                                   *)
(***************************************************************************)
Senders(f) == {i \in DOMAIN probes[f] : probes[f][i].sent}

Running(f) == {i \in DOMAIN probes[f] : probes[f][i].state = "inflight"}

C19_ChannelState ==
    \A f \in SourceFiles :
        /\ pc[f] = "probing" =>
              /\ Len(queue[f]) + Len(endpoints[f].elems) = Cardinality(Senders(f))
              /\ \A a \in Addresses :
                   Count(queue[f] \o endpoints[f].elems, a)
                       = Cardinality({i \in Senders(f) : Member(f, i) = a})
              /\ Senders(f) \cap Running(f) = {}
              /\ \A i \in DOMAIN probes[f] :
                   /\ probes[f][i].sent => probes[f][i].answeredOK
                   /\ probes[f][i].gotOK => probes[f][i].sent
              /\ \A i \in DOMAIN probes[f] : probes[f][i].reqs <= 1
              /\ wgEndpoint[f] = Cardinality(Running(f))
              /\ Len(queue[f]) <= Len(probes[f])
              /\ Running(f) # {} => Len(queue[f]) < Len(probes[f])
              /\ closed[f] => Running(f) = {}
        /\ \A p \in 1..Len(cur[f].ready) :
              Reconciled(f, p) =>
                  Len(MembersOut(f, p)) = Cardinality(cur[f].ready[p])

\* a step that closes the channel finds every task finished, and no step
\* puts a result into a closed channel
C19_NoSendAfterClose ==
    [][\A f \in SourceFiles :
          (closed[f] /\ pc[f] = "probing" /\ pc'[f] = "probing" /\ pos'[f] = pos[f])
              => /\ Len(queue'[f]) <= Len(queue[f])
                 /\ probes'[f] = probes[f]]_vars

C19_ChannelProtocol ==
    /\ []C19_ChannelState
    /\ C19_NoSendAfterClose

\* both tasks of a definition have sent, one result waits in the channel
\* and the other has been received, and the channel is closed
C19_Witness ==
    \E f \in SourceFiles :
        /\ pc[f] = "probing" /\ closed[f]
        /\ Len(probes[f]) = 2 /\ Senders(f) = {1, 2}
        /\ Len(queue[f]) = 1 /\ Len(endpoints[f].elems) = 1

====
